---- MODULE Spec2Model ----
(***************************************************************************)
(* fractal-flake (src/src/lib.rs): FlakeSeed (configuration file, sync     *)
(* with the coordinator, fracture) and FlakeGenerator (generate,           *)
(* check_sequence).                                                        *)
(*                                                                         *)
(* Unsigned machine integers that take part in bit operations (u64, u128)  *)
(* are modelled as the set of the positions of their 1-bits: 5 is {0, 2}.  *)
(* Bitwise or/and are union/intersection, a shift moves the positions and  *)
(* drops those that leave the width.  Small integers (sequence, node_id,   *)
(* thread_id, epoch) are kept as numbers and converted by Word.            *)
(***************************************************************************)
EXTENDS Integers, Sequences, FiniteSets, TLC

-----------------------------------------------------------------------------
(* Program constants *)

U64Bits == 64
TimeShift == 22
NodeShift == 17
ThreadShift == 12
IdMask == 31
SequenceMask == 4095
SequenceMax == 4095

(* Bounds of the model *)

MaxMs == 2
MaxCalls == 2
PairCalls == 1
MaxLines == 2
MaxSyncs == 2
BurstLen == 4095
SealCalls == 1

-----------------------------------------------------------------------------
(* Words *)

Word(n) == {i \in 0..30 : (n \div (2^i)) % 2 = 1}

Shl(w, k, width) == {i + k : i \in w} \cap (0..(width - 1))

BitOr(a, b) == a \cup b

BitAnd(a, b) == a \cap b

Truncate(w, width) == w \cap (0..(width - 1))

WordLt(a, b) == \E i \in b \ a : \A j \in a \ b : j < i

WordLe(a, b) == a = b \/ WordLt(a, b)

Field(w, lo, hi) == {i - lo : i \in w \cap (lo..hi)}

RECURSIVE WordAdd(_, _)
WordAdd(a, b) ==
    IF b = {} THEN a
    ELSE WordAdd((a \cup b) \ (a \cap b), {i + 1 : i \in a \cap b})

-----------------------------------------------------------------------------
(* The wall clock: SystemTime::now().duration_since(UNIX_EPOCH) is either  *)
(* Ok(milliseconds) or, for a clock set before 1970, Err.                  *)

TimeBits == U64Bits - TimeShift

\* The readings of the model: 0..MaxMs, and 2^42 + 1 for the times whose
\* milliseconds no longer fit the 42 bits of the timestamp field.
Times == {Word(n) : n \in 0..MaxMs} \cup {Word(1) \cup {TimeBits}}

ClockValues ==
    {[ok |-> TRUE, ms |-> t] : t \in Times} \cup {[ok |-> FALSE, ms |-> {}]}

\* The arguments <<epoch, node_id, thread_id>> of FlakeGenerator::new the
\* model draws from; IdMask + 2 is an id above 31, which aliases 1.
NewArgs ==
    {<<0, 1, IdMask + 2>>, <<1, IdMask + 2, 1>>, <<1, IdMask, 1>>}

Gens == {1, 2}

VARIABLES
    clock,      \* the wall clock
    active,     \* the generator instances in use
    gen,        \* gen[g]: the fields of FlakeGenerator g
    pc,         \* pc[g]: "idle", "spin" (line 255), "read" (line 226), "aborted"
    left,       \* left[g]: the calls g may still begin one step at a time
    bursted,    \* bursted[g]: the instance has made its burst of calls
    lastRead,   \* lastRead[g]: the latest clock reading g made
    mono,       \* mono[g]: no reading of g was lower than the one before it
    small,      \* small[g]: every reading of g was below 2^42
    rolled,     \* rolled[g]: the latest call took the rollover path (254-257)
    recent,     \* recent[g]: the last two identifiers returned, oldest first
    asm,        \* asm[g]: last_time and sequence at the latest bit assembly
    issued,     \* issued[g]: the identifiers returned so far
    returned,   \* returned[g]: how many identifiers issued[g] was given
    file,       \* the configuration file given to FlakeSeed::from_file
    cfg_out,    \* what from_file returned
    seed,       \* the FlakeSeed that sync() is called on
    seed_was,   \* the seed when the latest sync() began
    sync_out    \* what the latest sync() returned, and the requests it made

genVars ==
    <<clock, active, gen, pc, left, bursted, lastRead, mono, small, rolled,
      recent, asm, issued, returned>>

cfgVars == <<file, cfg_out>>

syncVars == <<seed, seed_was, sync_out>>

vars == <<genVars, cfgVars, syncVars>>

-----------------------------------------------------------------------------
(* FlakeGenerator *)

new(epoch, node_id, thread_id) ==
    [epoch |-> epoch, node_id |-> node_id, thread_id |-> thread_id,
     sequence |-> 0, last_time |-> {}]

\* maxed_out one value late
maxed_out_late(g) == g.sequence > SequenceMax + 1

\* line 254: the sequence is maxed out
maxed_out(g) == g.sequence > SequenceMax

\* still_waiting with a wait that never ends
still_waiting_always(g, now) == TRUE

\* still_waiting with the wait left out
still_waiting_never(g, now) == FALSE

\* line 255: the condition of the busy wait
still_waiting(g, now) == WordLe(now, g.last_time)

\* line 256: the reset after the wait
rollover_reset(g) == [g EXCEPT !.sequence = 0]

\* elapsed_reset with >= for >
elapsed_reset_eager(g, now) ==
    IF WordLe(g.last_time, now) THEN [g EXCEPT !.sequence = 0] ELSE g

\* lines 261-263: the reset when time has elapsed
elapsed_reset(g, now) ==
    IF WordLt(g.last_time, now) THEN [g EXCEPT !.sequence = 0] ELSE g

\* line 226: last_time takes the reading
capture(g, now) == [g EXCEPT !.last_time = now]

\* assemble with thread_id put in the node field too
assemble_thread_twice(g) ==
    LET t == Shl(Truncate(g.last_time, U64Bits), TimeShift, U64Bits)
        n == Shl(BitAnd(Word(g.thread_id), Word(IdMask)), NodeShift, U64Bits)
        h == Shl(BitAnd(Word(g.thread_id), Word(IdMask)), ThreadShift, U64Bits)
        s == BitAnd(Word(g.sequence), Word(SequenceMask))
    IN  BitOr(BitOr(BitOr(t, n), h), s)

\* assemble with the node field shifted one bit short
assemble_node_short(g) ==
    LET t == Shl(Truncate(g.last_time, U64Bits), TimeShift, U64Bits)
        n == Shl(BitAnd(Word(g.node_id), Word(IdMask)), NodeShift - 1, U64Bits)
        h == Shl(BitAnd(Word(g.thread_id), Word(IdMask)), ThreadShift, U64Bits)
        s == BitAnd(Word(g.sequence), Word(SequenceMask))
    IN  BitOr(BitOr(BitOr(t, n), h), s)

\* lines 227-245: the bit assembly
assemble(g) ==
    LET t == Shl(Truncate(g.last_time, U64Bits), TimeShift, U64Bits)
        n == Shl(BitAnd(Word(g.node_id), Word(IdMask)), NodeShift, U64Bits)
        h == Shl(BitAnd(Word(g.thread_id), Word(IdMask)), ThreadShift, U64Bits)
        s == BitAnd(Word(g.sequence), Word(SequenceMask))
    IN  BitOr(BitOr(BitOr(t, n), h), s)

\* post_increment that also counts node_id up
post_increment_and_node(g) == [g EXCEPT !.sequence = @ + 1, !.node_id = @ + 1]

\* post_increment with a step of two
post_increment_by_two(g) == [g EXCEPT !.sequence = @ + 2]

\* line 247
post_increment(g) == [g EXCEPT !.sequence = @ + 1]

\* A whole generate() call that reads `now` at line 261 and at line 226 and
\* does not take the rollover path: the state it leaves.
generate_at(g, now) == post_increment(capture(elapsed_reset(g, now), now))

RECURSIVE generate_times(_, _, _)
generate_times(g, now, n) ==
    IF n = 0 THEN g
    ELSE IF n = 1 THEN generate_at(g, now)
    ELSE LET half == generate_times(g, now, n \div 2)
         IN  IF half.sequence >= 0
             THEN generate_times(half, now, n - (n \div 2))
             ELSE half

-----------------------------------------------------------------------------
(* Decoding an identifier *)

TimestampField(f) == Field(f, TimeShift, U64Bits - 1)
NodeField(f) == Field(f, NodeShift, TimeShift - 1)
ThreadField(f) == Field(f, ThreadShift, NodeShift - 1)
SequenceField(f) == Field(f, 0, ThreadShift - 1)

-----------------------------------------------------------------------------
(* Bookkeeping of the clock readings and of the identifiers returned *)

Read(g) ==
    /\ lastRead' = [lastRead EXCEPT ![g] = clock.ms]
    /\ mono' = [mono EXCEPT ![g] = @ /\ ~WordLt(clock.ms, lastRead[g])]
    /\ small' = [small EXCEPT ![g] = @ /\ clock.ms \cap (TimeBits..127) = {}]

NoRead == UNCHANGED <<lastRead, mono, small>>

Push(r, f) == IF Len(r) < 2 THEN Append(r, f) ELSE <<r[2], f>>

Abort(g) ==
    /\ pc' = [pc EXCEPT ![g] = "aborted"]
    /\ UNCHANGED <<gen, left, rolled, recent, asm, issued, returned>>
    /\ NoRead

-----------------------------------------------------------------------------
(* Actions *)

\* The wall clock takes another value: forwards, or backwards (it is not a
\* monotonic clock), or to a date before 1970.
Tick ==
    /\ clock' \in ClockValues \ {clock}
    /\ UNCHANGED <<cfgVars, syncVars>>
    /\ UNCHANGED <<active, gen, pc, left, bursted, lastRead, mono, small,
                   rolled, recent, asm, issued, returned>>

\* generate() is called: check_sequence up to its first clock reading
\* (lines 223, 254, 261-263).
CheckSequence(g) ==
    /\ g \in active
    /\ pc[g] = "idle"
    /\ left[g] > 0
    /\ UNCHANGED <<clock, active, bursted, cfgVars, syncVars>>
    /\ IF maxed_out(gen[g])
       THEN /\ pc' = [pc EXCEPT ![g] = "spin"]
            /\ rolled' = [rolled EXCEPT ![g] = TRUE]
            /\ left' = [left EXCEPT ![g] = @ - 1]
            /\ UNCHANGED <<gen, recent, asm, issued, returned>>
            /\ NoRead
       ELSE IF ~clock.ok
       THEN Abort(g)
       ELSE /\ gen' = [gen EXCEPT ![g] = elapsed_reset(@, clock.ms)]
            /\ pc' = [pc EXCEPT ![g] = "read"]
            /\ rolled' = [rolled EXCEPT ![g] = FALSE]
            /\ left' = [left EXCEPT ![g] = @ - 1]
            /\ UNCHANGED <<recent, asm, issued, returned>>
            /\ Read(g)

\* One evaluation of the condition of the busy wait (line 255), and the
\* reset and return that follow when it is false (lines 256-257).
Spin(g) ==
    /\ g \in active
    /\ pc[g] = "spin"
    /\ UNCHANGED <<clock, active, bursted, cfgVars, syncVars>>
    /\ IF ~clock.ok
       THEN Abort(g)
       ELSE /\ IF still_waiting(gen[g], clock.ms)
               THEN UNCHANGED <<gen, pc>>
               ELSE /\ gen' = [gen EXCEPT ![g] = rollover_reset(@)]
                    /\ pc' = [pc EXCEPT ![g] = "read"]
            /\ UNCHANGED <<left, rolled, recent, asm, issued, returned>>
            /\ Read(g)

\* The rest of generate(): the second clock reading, the bit assembly, the
\* increment and the return (lines 226-249).
Assemble(g) ==
    /\ g \in active
    /\ pc[g] = "read"
    /\ UNCHANGED <<clock, active, bursted, left, rolled, cfgVars, syncVars>>
    /\ IF ~clock.ok
       THEN Abort(g)
       ELSE LET g1 == capture(gen[g], clock.ms)
                flake == assemble(g1)
            IN  /\ gen' = [gen EXCEPT ![g] = post_increment(g1)]
                /\ pc' = [pc EXCEPT ![g] = "idle"]
                /\ recent' = [recent EXCEPT ![g] = Push(@, flake)]
                /\ asm' = [asm EXCEPT ![g] = [t |-> g1.last_time, s |-> g1.sequence]]
                /\ issued' = [issued EXCEPT ![g] = @ \cup {flake}]
                /\ returned' = [returned EXCEPT ![g] = @ + 1]
                /\ Read(g)

\* The first BurstLen calls of generate() made in a row while the clock
\* holds one value, none of them on the rollover path.  Of the identifiers
\* they return the first and the last two are recorded.
Burst(g) ==
    /\ g \in active
    /\ pc[g] = "idle"
    /\ ~bursted[g]
    /\ returned[g] = 0
    /\ clock.ok
    /\ gen[g].sequence + BurstLen <= SequenceMax + 1
    /\ LET now == clock.ms
           g0 == capture(elapsed_reset(gen[g], now), now)
           ga == generate_times(post_increment(g0), now, BurstLen - 3)
           g1 == capture(elapsed_reset(ga, now), now)
           gb == post_increment(g1)
           g2 == capture(elapsed_reset(gb, now), now)
           kept == <<assemble(g0), assemble(g1), assemble(g2)>>
       IN  /\ gen' = [gen EXCEPT ![g] = post_increment(g2)]
           /\ recent' = [recent EXCEPT ![g] = <<kept[2], kept[3]>>]
           /\ asm' = [asm EXCEPT ![g] = [t |-> g2.last_time, s |-> g2.sequence]]
           /\ issued' = [issued EXCEPT ![g] = @ \cup {kept[1], kept[2], kept[3]}]
           /\ returned' = [returned EXCEPT ![g] = @ + 3]
    /\ bursted' = [bursted EXCEPT ![g] = TRUE]
    /\ rolled' = [rolled EXCEPT ![g] = FALSE]
    /\ Read(g)
    /\ UNCHANGED <<clock, active, pc, left, cfgVars, syncVars>>

-----------------------------------------------------------------------------
(* Strings.  A str is modelled as the sequence of its UTF-8 bytes, a byte  *)
(* as a one-character string; a character outside ASCII is its lead byte   *)
(* "C3" followed by a continuation byte "A9".  Offsets count bytes from 0, *)
(* as in the source.                                                       *)

LF == "\n"
EQ == "="
ContBytes == {"A9"}
Whitespace == {" ", "\t", "\r", "\n"}
Digits == <<"0", "1", "2", "3", "4", "5", "6", "7", "8", "9">>

\* str::is_char_boundary
IsBoundary(buf, i) ==
    \/ i = 0
    \/ i = Len(buf)
    \/ i > 0 /\ i < Len(buf) /\ buf[i + 1] \notin ContBytes

\* &buf[a..b] panics unless a <= b <= len and both are char boundaries.
SliceOk(buf, a, b) ==
    a <= b /\ b <= Len(buf) /\ IsBoundary(buf, a) /\ IsBoundary(buf, b)

Slice(buf, a, b) == SubSeq(buf, a + 1, b)

\* The positions of the first bytes of buf.chars().
CharStarts(buf) == {p \in 1..Len(buf) : buf[p] \notin ContBytes}

\* The count the loops at lines 173-178 and 187-192 reach: how many
\* characters of buf.chars().skip(k) come before the first `stop`.
CountUntil(buf, k, stop) ==
    LET S == CharStarts(buf)
        T == {p \in S : Cardinality({q \in S : q < p}) >= k}
        stops == {p \in T : buf[p] = stop}
    IN  IF stops = {} THEN Cardinality(T)
        ELSE Cardinality({p \in T : \A q \in stops : p < q})

RECURSIVE trim_start(_)
trim_start(s) ==
    IF s # <<>> /\ s[1] \in Whitespace THEN trim_start(Tail(s)) ELSE s

RECURSIVE trim_end(_)
trim_end(s) ==
    IF s # <<>> /\ s[Len(s)] \in Whitespace
    THEN trim_end(SubSeq(s, 1, Len(s) - 1)) ELSE s

\* str::trim
trim(s) == trim_end(trim_start(s))

(* str::parse for u16, u64 and u128: an optional '+', then decimal digits  *)
(* whose value does not exceed the type's maximum.  The maximum is given   *)
(* by its digits, so that the comparison needs no wide arithmetic.         *)

U16Max == <<"6", "5", "5", "3", "5">>
U64Max ==
    <<"1", "8", "4", "4", "6", "7", "4", "4", "0", "7",
      "3", "7", "0", "9", "5", "5", "1", "6", "1", "5">>
U128Max ==
    <<"3", "4", "0", "2", "8", "2", "3", "6", "6", "9",
      "2", "0", "9", "3", "8", "4", "6", "3", "4", "6",
      "3", "3", "7", "4", "6", "0", "7", "4", "3", "1",
      "7", "6", "8", "2", "1", "1", "4", "5", "5">>

DigitValue(c) == (CHOOSE i \in 1..10 : Digits[i] = c) - 1

IsDigit(c) == \E i \in 1..10 : Digits[i] = c

RECURSIVE StripZeros(_)
StripZeros(d) ==
    IF Len(d) > 1 /\ d[1] = "0" THEN StripZeros(Tail(d)) ELSE d

\* a > b for digit strings without leading zeros
DigitsGreater(a, b) ==
    \/ Len(a) > Len(b)
    \/ /\ Len(a) = Len(b)
       /\ \E i \in 1..Len(a) :
             /\ DigitValue(a[i]) > DigitValue(b[i])
             /\ \A j \in 1..(i - 1) : a[j] = b[j]

RECURSIVE DecimalValue(_)
DecimalValue(d) ==
    IF d = <<>> THEN 0
    ELSE 10 * DecimalValue(SubSeq(d, 1, Len(d) - 1)) + DigitValue(d[Len(d)])

parse(s, max) ==
    LET d == IF Len(s) > 1 /\ s[1] = "+" THEN Tail(s) ELSE s
    IN  IF d = <<>> \/ \E i \in 1..Len(d) : ~IsDigit(d[i])
        THEN [ok |-> FALSE, value |-> 0]
        ELSE IF DigitsGreater(StripZeros(d), max)
        THEN [ok |-> FALSE, value |-> 0]
        ELSE [ok |-> TRUE, value |-> DecimalValue(StripZeros(d))]

-----------------------------------------------------------------------------
(* FlakeSeed::from_file *)

FlakeSeed_new(sync_host, sync_port) ==
    [sync_host |-> sync_host, sync_port |-> sync_port, node_id |-> 0, epoch |-> 0]

NoSeed == FlakeSeed_new(<<>>, 0)

Returned(s) == [kind |-> "Ok", seed |-> s, error |-> "", line |-> 0, value |-> <<>>]
Failed(e, n, v) == [kind |-> "Err", seed |-> NoSeed, error |-> e, line |-> n, value |-> v]
Panicked == [kind |-> "Panic", seed |-> NoSeed, error |-> "", line |-> 0, value |-> <<>>]
NotCalled == [kind |-> "None", seed |-> NoSeed, error |-> "", line |-> 0, value |-> <<>>]

\* lines 171-183
get_line(buffer, offset) ==
    LET count == CountUntil(buffer, offset, LF)
    IN  [panic |-> ~SliceOk(buffer, offset, offset + count),
         line |-> trim(Slice(buffer, offset, offset + count)),
         offset |-> offset + count + 1]

\* lines 185-199
split_line(buffer) ==
    LET count == CountUntil(buffer, 0, EQ)
    IN  IF count >= Len(buffer)
        THEN [kind |-> "Err", lhs |-> <<>>, rhs |-> <<>>]
        ELSE IF ~SliceOk(buffer, 0, count) \/ ~SliceOk(buffer, count + 1, Len(buffer))
        THEN [kind |-> "Panic", lhs |-> <<>>, rhs |-> <<>>]
        ELSE [kind |-> "Ok", lhs |-> Slice(buffer, 0, count),
              rhs |-> Slice(buffer, count + 1, Len(buffer))]

KeyHost == <<"h", "o", "s", "t">>
KeyPort == <<"p", "o", "r", "t">>
KeyNode == <<"n", "o", "d", "e">>
KeyEpoch == <<"e", "p", "o", "c", "h">>

\* lines 113-136: what one split line does to the seed
set_field(s, lhs, rhs, line_number) ==
    IF lhs = KeyHost
    THEN Returned([s EXCEPT !.sync_host = rhs])
    ELSE IF lhs = KeyPort
    THEN IF parse(rhs, U16Max).ok
         THEN Returned([s EXCEPT !.sync_port = parse(rhs, U16Max).value])
         ELSE Failed("InvalidPort", line_number, rhs)
    ELSE IF lhs = KeyNode
    THEN IF parse(rhs, U64Max).ok
         THEN Returned([s EXCEPT !.node_id = parse(rhs, U64Max).value])
         ELSE Failed("InvalidNode", line_number, rhs)
    ELSE IF lhs = KeyEpoch
    THEN IF parse(rhs, U128Max).ok
         THEN Returned([s EXCEPT !.epoch = parse(rhs, U128Max).value])
         ELSE Failed("InvalidEpoch", line_number, rhs)
    ELSE Returned(s)

\* lines 100-142: the loop, from its state at the top of an iteration
RECURSIVE read_lines(_, _, _, _)
read_lines(contents, f_ptr, line_number, s) ==
    IF f_ptr >= Len(contents) THEN Returned(s)
    ELSE LET got == get_line(contents, f_ptr)
             split == split_line(got.line)
         IN  IF got.panic THEN Panicked
             ELSE IF split.kind = "Panic" THEN Panicked
             ELSE IF split.kind = "Err" THEN Failed("MissingEquals", line_number, <<>>)
             ELSE LET r == set_field(s, split.lhs, split.rhs, line_number)
                  IN  IF r.kind = "Ok"
                      THEN read_lines(contents, got.offset, line_number + 1, r.seed)
                      ELSE r

\* lines 88-143
from_file(f) ==
    IF ~f.readable THEN Failed("IOError", 0, <<>>)
    ELSE read_lines(f.contents, 0, 1, FlakeSeed_new(<<>>, 0))

(* The files of the model: up to MaxLines of the lines below, joined by    *)
(* '\n', with or without a final '\n'; and a file that cannot be read.     *)

Text(key, value) == key \o <<EQ>> \o value

CfgLines ==
    {Text(KeyHost, <<"a">>), Text(KeyHost, <<"b">>),
     Text(KeyPort, <<"8", "0">>), Text(KeyPort, <<"7">>),
     Text(KeyNode, <<"3">>), Text(KeyEpoch, <<"5">>),
     Text(<<"z">>, <<"1">>),
     Text(KeyPort, <<"9", "9", "9", "9", "9">>),
     Text(KeyNode, <<"x">>),
     Text(KeyEpoch, <<>>),
     <<"b", "a", "d">>,
     <<>>,
     <<" ">> \o Text(KeyPort, <<"7">>) \o <<" ">>,
     Text(KeyPort, <<" ", "7">>),
     Text(KeyHost, <<" ", "a">>),
     Text(KeyHost, <<"C3", "A9">>)}

RECURSIVE Join(_)
Join(ls) ==
    IF ls = <<>> THEN <<>>
    ELSE IF Len(ls) = 1 THEN ls[1]
    ELSE ls[1] \o <<LF>> \o Join(Tail(ls))

Files ==
    {[readable |-> FALSE, contents |-> <<>>]} \cup
    {[readable |-> TRUE, contents |-> Join(ls) \o nl] :
        ls \in UNION {[1..n -> CfgLines] : n \in 0..MaxLines},
        nl \in {<<>>, <<LF>>}}

FromFile ==
    /\ cfg_out.kind = "None"
    /\ cfg_out' = from_file(file)
    /\ UNCHANGED <<file, genVars, syncVars>>

NoCfg == file = [readable |-> FALSE, contents |-> <<>>] /\ cfg_out = NotCalled

-----------------------------------------------------------------------------
(* FlakeSeed::sync.  What isahc::get and the coordinator answer is the     *)
(* environment's choice: the request fails, or a body arrives that is not  *)
(* JSON ("garbage"), is JSON without an epoch field, has an epoch that is  *)
(* not a string, or has the string `epoch`.                                *)

EpochTexts ==
    {<<"1", "2", "3", "4", "5", "6", "7", "8", "9">>, <<"7">>, <<"+", "7">>,
     <<"x">>, <<>>, <<" ", "7">>, <<"-", "7">>, U128Max \o <<"0">>}

Responses ==
    {[reached |-> FALSE, json |-> "none", epoch |-> <<>>]} \cup
    {[reached |-> TRUE, json |-> j, epoch |-> <<>>] :
        j \in {"garbage", "no_epoch", "epoch_number"}} \cup
    {[reached |-> TRUE, json |-> "epoch_string", epoch |-> e] : e \in EpochTexts}

NoResponse == [reached |-> FALSE, json |-> "none", epoch |-> <<>>]

SyncResult(kind, host, port, requests) ==
    [kind |-> kind, host |-> host, port |-> port, requests |-> requests]

\* sync with the epoch cleared when the coordinator's epoch does not parse
sync_clearing(s, r) ==
    IF ~r.reached
    THEN [seed |-> s, out |-> SyncResult("NetworkError", s.sync_host, s.sync_port, 1)]
    ELSE IF r.json # "epoch_string"
    THEN [seed |-> s, out |-> SyncResult("DeserialisationError", <<>>, 0, 1)]
    ELSE IF ~parse(r.epoch, U128Max).ok
    THEN [seed |-> [s EXCEPT !.epoch = 0],
          out |-> SyncResult("InvalidSyncEpochRecived", <<>>, 0, 1)]
    ELSE [seed |-> [s EXCEPT !.epoch = parse(r.epoch, U128Max).value],
          out |-> SyncResult("Ok", <<>>, 0, 1)]

\* lines 148-165: the seed sync() leaves and what it returns
sync(s, r) ==
    IF ~r.reached
    THEN [seed |-> s, out |-> SyncResult("NetworkError", s.sync_host, s.sync_port, 1)]
    ELSE IF r.json # "epoch_string"
    THEN [seed |-> s, out |-> SyncResult("DeserialisationError", <<>>, 0, 1)]
    ELSE IF ~parse(r.epoch, U128Max).ok
    THEN [seed |-> s, out |-> SyncResult("InvalidSyncEpochRecived", <<>>, 0, 1)]
    ELSE [seed |-> [s EXCEPT !.epoch = parse(r.epoch, U128Max).value],
          out |-> SyncResult("Ok", <<>>, 0, 1)]

\* The seeds sync() is called on: what from_file makes of the model's files.
Seeds ==
    {[sync_host |-> h, sync_port |-> p, node_id |-> n, epoch |-> e] :
        h \in {<<>>, <<"a">>}, p \in {0, 80}, n \in {0, 3}, e \in {0, 5}}

SyncWith(r) ==
    /\ seed_was' = seed
    /\ seed' = sync(seed, r).seed
    /\ sync_out' = [result |-> sync(seed, r).out, answer |-> r,
                    calls |-> sync_out.calls + 1]
    /\ UNCHANGED <<genVars, cfgVars>>

Sync ==
    /\ sync_out.calls < MaxSyncs
    /\ \E r \in Responses : SyncWith(r)

NotSynced ==
    [result |-> SyncResult("None", <<>>, 0, 0), answer |-> NoResponse, calls |-> 0]

NoSync == seed = NoSeed /\ seed_was = NoSeed /\ sync_out = NotSynced

-----------------------------------------------------------------------------
(* One generator instance *)

InitGen(act) ==
    /\ active = act
    /\ gen \in [Gens -> {new(a[1], a[2], a[3]) : a \in NewArgs \cup {<<0, 0, 0>>}}]
    /\ \A g \in act : <<gen[g].epoch, gen[g].node_id, gen[g].thread_id>> \in NewArgs
    /\ \A g \in Gens \ act : gen[g] = new(0, 0, 0)
    /\ pc = [g \in Gens |-> "idle"]
    /\ bursted = [g \in Gens |-> FALSE]
    /\ lastRead = [g \in Gens |-> {}]
    /\ mono = [g \in Gens |-> TRUE]
    /\ small = [g \in Gens |-> TRUE]
    /\ rolled = [g \in Gens |-> FALSE]
    /\ recent = [g \in Gens |-> <<>>]
    /\ asm = [g \in Gens |-> [t |-> {}, s |-> 0]]
    /\ issued = [g \in Gens |-> {}]
    /\ returned = [g \in Gens |-> 0]

Init ==
    /\ clock \in ClockValues
    /\ InitGen({1})
    /\ left = [g \in Gens |-> MaxCalls]
    /\ NoCfg
    /\ NoSync

Next ==
    \/ Tick
    \/ \E g \in Gens : CheckSequence(g)
    \/ \E g \in Gens : Spin(g)
    \/ \E g \in Gens : Assemble(g)
    \/ \E g \in Gens : Burst(g)

Spec == Init /\ [][Next]_vars

(* Two generator instances on one clock: the first makes at most PairCalls *)
(* calls, the second one call.                                             *)

InitPair ==
    /\ clock \in ClockValues
    /\ InitGen({1, 2})
    /\ left = [g \in Gens |-> IF g = 1 THEN PairCalls ELSE 1]
    /\ NoCfg
    /\ NoSync

NextPair ==
    \/ Tick
    \/ \E g \in Gens : CheckSequence(g)
    \/ \E g \in Gens : Assemble(g)

SpecPair == InitPair /\ [][NextPair]_vars

(* FlakeSeed::from_file on the files of the model *)

NoGen ==
    /\ clock = [ok |-> TRUE, ms |-> {}]
    /\ InitGen({})
    /\ left = [g \in Gens |-> 0]

InitCfg == file \in Files /\ cfg_out = NotCalled /\ NoGen /\ NoSync

NextCfg == FromFile

SpecCfg == InitCfg /\ [][NextCfg]_vars

(* FlakeSeed::sync, called up to MaxSyncs times on one seed *)

InitSync ==
    /\ seed \in Seeds
    /\ seed_was = seed
    /\ sync_out = NotSynced
    /\ NoGen
    /\ NoCfg

NextSync == Sync

SpecSync == InitSync /\ [][NextSync]_vars

(* FlakeSeed::fracture: a seed that is synced once and sealed into          *)
(* generators, the first of which makes at most SealCalls calls.            *)

\* fracture with node_id and thread_id exchanged
fracture_swapped(s, thread_id) == new(s.epoch, thread_id, s.node_id)

\* lines 167-169
fracture(s, thread_id) == new(s.epoch, s.node_id, thread_id)

\* The thread ids given to fracture; IdMask + 2 is an id above 31.
ThreadIds == {1, IdMask + 2}

\* The seeds that are sealed: one as FlakeSeed::new leaves it, one as
\* from_file returns it for a file that sets node and epoch.
SealSeeds == {s \in Seeds : s.sync_host = <<"a">> /\ s.sync_port = 80
                             /\ (s.node_id = 0 <=> s.epoch = 0)}

Fracture(g, thread_id) ==
    /\ g \notin active
    /\ seed # NoSeed
    /\ gen' = [gen EXCEPT ![g] = fracture(seed, thread_id)]
    /\ active' = active \cup {g}
    /\ UNCHANGED <<clock, pc, left, bursted, lastRead, mono, small, rolled,
                   recent, asm, issued, returned, cfgVars, syncVars>>

\* The answers to the one sync() of the seed: none, and {"epoch":"7"}.
SealResponses ==
    {r \in Responses : ~r.reached \/ (r.json = "epoch_string" /\ r.epoch = <<"7">>)}

InitSeal ==
    /\ seed \in SealSeeds
    /\ seed_was = seed
    /\ sync_out = NotSynced
    /\ clock \in ClockValues
    /\ InitGen({})
    /\ left = [g \in Gens |-> IF g = 1 THEN SealCalls ELSE 0]
    /\ NoCfg

NextSeal ==
    \/ Tick
    \/ \E r \in SealResponses : sync_out.calls = 0 /\ SyncWith(r)
    \/ \E g \in Gens, thread_id \in ThreadIds : Fracture(g, thread_id)
    \/ \E g \in Gens : CheckSequence(g)
    \/ \E g \in Gens : Assemble(g)

SpecSeal == InitSeal /\ [][NextSeal]_vars

(* One generator instance under a wall clock that keeps advancing: the     *)
(* clock only moves forwards, and it does move; a call that has begun keeps *)
(* running (the thread is scheduled).                                       *)

\* The last time of the model; no reading exceeds it.
TopTime == Word(1) \cup {TimeBits}

Advance ==
    /\ clock.ok
    /\ clock' \in {c \in ClockValues : c.ok /\ WordLt(clock.ms, c.ms)}
    /\ UNCHANGED <<cfgVars, syncVars>>
    /\ UNCHANGED <<active, gen, pc, left, bursted, lastRead, mono, small,
                   rolled, recent, asm, issued, returned>>

InitLive ==
    /\ clock \in {c \in ClockValues : c.ok}
    /\ InitGen({1})
    /\ left = [g \in Gens |-> MaxCalls]
    /\ NoCfg
    /\ NoSync

NextLive ==
    \/ Advance
    \/ \E g \in Gens : CheckSequence(g)
    \/ \E g \in Gens : Spin(g)
    \/ \E g \in Gens : Assemble(g)
    \/ \E g \in Gens : Burst(g)

SpecLive ==
    /\ InitLive /\ [][NextLive]_vars
    /\ WF_vars(Advance)
    /\ \A g \in Gens : WF_vars(Spin(g)) /\ WF_vars(Assemble(g))

-----------------------------------------------------------------------------
(* Arithmetic on words, for stating the layout: w * 2^k and w mod 2^k *)

TimesPow2(w, k) == {i + k : i \in w}
ModPow2(w, k) == {i \in w : i < k}

Latest(g) == recent[g][Len(recent[g])]

\* The identifier as the sum the layout describes.
Layout(t, node_id, thread_id, s) ==
    WordAdd(WordAdd(WordAdd(TimesPow2(ModPow2(t, TimeBits), TimeShift),
                            TimesPow2(Word(node_id % 32), NodeShift)),
                    TimesPow2(Word(thread_id % 32), ThreadShift)),
            Word(s))

-----------------------------------------------------------------------------
(* C1: while the readings of an instance are non-decreasing and below 2^42, *)
(* no identifier it returns equals one it returned before: as many          *)
(* different identifiers were issued as identifiers were returned.          *)
C1_Unique ==
    \A g \in active :
        (mono[g] /\ small[g]) => Cardinality(issued[g]) = returned[g]

\* A rollover call has returned under such a clock, after a call that read
\* a later time at line 226 than check_sequence had read.
C1_Witness ==
    \E g \in active :
        /\ mono[g] /\ small[g] /\ rolled[g] /\ pc[g] = "idle"
        /\ returned[g] = 5
        /\ Len(recent[g]) = 2
        /\ WordLt(TimestampField(recent[g][1]), TimestampField(recent[g][2]))

(* C2: under such a clock each identifier returned is numerically greater   *)
(* than or equal to the one returned before it, and when the two carry the  *)
(* same timestamp field the sequence field has strictly increased.          *)
C2_Ordered ==
    \A g \in active :
        (mono[g] /\ small[g] /\ Len(recent[g]) = 2) =>
            /\ WordLe(recent[g][1], recent[g][2])
            /\ TimestampField(recent[g][1]) = TimestampField(recent[g][2]) =>
                    WordLt(SequenceField(recent[g][1]), SequenceField(recent[g][2]))

\* Two calls made one step at a time returned identifiers of one millisecond.
C2_Witness ==
    \E g \in active :
        /\ mono[g] /\ small[g] /\ ~bursted[g] /\ Len(recent[g]) = 2
        /\ TimestampField(recent[g][1]) = TimestampField(recent[g][2])
        /\ SequenceField(recent[g][2]) = Word(1)

(* C3: two instances whose pairs (node_id & 31, thread_id & 31) differ      *)
(* never return the same identifier, whatever the clock did: any two of     *)
(* their identifiers differ in bits 21..12.                                 *)
MaskedPair(g) == <<gen[g].node_id % 32, gen[g].thread_id % 32>>

C4_RolloverGuard ==
    \A g \in active :
        /\ (pc[g] = "read" /\ rolled[g]) => WordLt(gen[g].last_time, lastRead[g])
        /\ (pc[g] = "idle" /\ rolled[g] /\ small[g] /\ Len(recent[g]) = 2) =>
               /\ SequenceField(recent[g][2]) = {}
               /\ WordLt(TimestampField(recent[g][1]), TimestampField(recent[g][2]))

C6_SinceEpoch ==
    \A g \in active :
        (/\ Len(recent[g]) > 0
         /\ ModPow2(asm[g].t, TimeBits) = asm[g].t
         /\ WordLe(Word(gen[g].epoch), asm[g].t)) =>
            WordAdd(TimestampField(Latest(g)), Word(gen[g].epoch)) = asm[g].t

(* C7: a call that reads the clock lower than the instance read it before   *)
(* aborts, so that no identifier is returned with a timestamp field lower   *)
(* than that of an identifier returned earlier (readings below 2^42).       *)
C7_BackwardsFatal ==
    \A g \in active :
        /\ ~mono[g] => pc[g] = "aborted"
        /\ (small[g] /\ Len(recent[g]) = 2) =>
               ~WordLt(TimestampField(recent[g][2]), TimestampField(recent[g][1]))

-----------------------------------------------------------------------------
(* The lines of a file, read off its text: the pieces between the '\n', a  *)
(* file that ends in '\n' having no line after it; each with the whitespace *)
(* around it removed; the key before the first '=' and the value after it. *)

RECURSIVE SplitOn(_, _)
SplitOn(s, sep) ==
    IF \A i \in 1..Len(s) : s[i] # sep THEN <<s>>
    ELSE LET i == CHOOSE k \in 1..Len(s) :
                      s[k] = sep /\ \A j \in 1..(k - 1) : s[j] # sep
         IN  <<SubSeq(s, 1, i - 1)>> \o SplitOn(SubSeq(s, i + 1, Len(s)), sep)

RawLines(c) ==
    LET parts == SplitOn(c, LF)
    IN  IF parts[Len(parts)] = <<>> THEN SubSeq(parts, 1, Len(parts) - 1) ELSE parts

EndsInNewline(c) == c # <<>> /\ c[Len(c)] = LF

FileLines(c) == [i \in 1..Len(RawLines(c)) |-> trim(RawLines(c)[i])]

HasEq(l) == \E i \in 1..Len(l) : l[i] = EQ
KeyOf(l) == SplitOn(l, EQ)[1]
ValueOf(l) == SubSeq(l, Len(KeyOf(l)) + 2, Len(l))

MaxOf(key) ==
    IF key = KeyPort THEN U16Max ELSE IF key = KeyNode THEN U64Max ELSE U128Max

Numeric(key) == key \in {KeyPort, KeyNode, KeyEpoch}

LineOk(l) == HasEq(l) /\ (Numeric(KeyOf(l)) => parse(ValueOf(l), MaxOf(KeyOf(l))).ok)

Ascii(c) == \A i \in 1..Len(c) : c[i] \notin ContBytes \cup {"C3"}

\* The value of the last line of ls that carries `key`, or `default`.
LastValue(ls, key, default) ==
    LET with == {i \in 1..Len(ls) : KeyOf(ls[i]) = key}
    IN  IF with = {} THEN default
        ELSE LET i == CHOOSE k \in with : \A j \in with : j <= k
             IN  IF Numeric(key) THEN parse(ValueOf(ls[i]), MaxOf(key)).value
                 ELSE ValueOf(ls[i])

ExpectedSeed(ls) ==
    [sync_host |-> LastValue(ls, KeyHost, <<>>),
     sync_port |-> LastValue(ls, KeyPort, 0),
     node_id |-> LastValue(ls, KeyNode, 0),
     epoch |-> LastValue(ls, KeyEpoch, 0)]

Swapped(ls, i) ==
    [k \in 1..Len(ls) |-> IF k = i THEN ls[i + 1] ELSE IF k = i + 1 THEN ls[i] ELSE ls[k]]

FileOf(ls, newline) ==
    [readable |-> TRUE, contents |-> Join(ls) \o (IF newline THEN <<LF>> ELSE <<>>)]

ConfigResult ==
    LET c == file.contents
        ls == FileLines(c)
    IN  /\ cfg_out = Returned(ExpectedSeed(ls))
        /\ \A i \in 1..(Len(ls) - 1) :
               KeyOf(ls[i]) # KeyOf(ls[i + 1]) =>
                   from_file(FileOf(Swapped(RawLines(c), i), EndsInNewline(c))) = cfg_out

WellFormed ==
    /\ cfg_out.kind # "None"
    /\ file.readable
    /\ \A i \in 1..Len(FileLines(file.contents)) : LineOk(FileLines(file.contents)[i])

(* C8: for a file whose lines all have the form key=value with port, node  *)
(* and epoch values that parse, from_file returns the seed whose fields are *)
(* the values of the last lines carrying host, port, node and epoch, or the *)
(* zero default; exchanging two neighbouring lines with different keys      *)
(* does not change the result.                                              *)
C8_ConfigResult == WellFormed => ConfigResult

\* C8 for the files that hold ASCII characters only.
C8_AsciiFiles == (WellFormed /\ Ascii(file.contents)) => ConfigResult

C8_AsciiWitness ==
    /\ WellFormed /\ Ascii(file.contents)
    /\ Len(FileLines(file.contents)) = 2
    /\ KeyOf(FileLines(file.contents)[1]) = KeyOf(FileLines(file.contents)[2])
    /\ cfg_out.seed.sync_port = 7

\* The number of the first line that has no '=' or whose port, node or
\* epoch value does not parse; 0 when there is none.
FirstBad(ls) ==
    IF \A i \in 1..Len(ls) : LineOk(ls[i]) THEN 0
    ELSE CHOOSE i \in 1..Len(ls) : ~LineOk(ls[i]) /\ \A j \in 1..(i - 1) : LineOk(ls[j])

ErrorOf(l, n) ==
    IF ~HasEq(l) THEN Failed("MissingEquals", n, <<>>)
    ELSE IF KeyOf(l) = KeyPort THEN Failed("InvalidPort", n, ValueOf(l))
    ELSE IF KeyOf(l) = KeyNode THEN Failed("InvalidNode", n, ValueOf(l))
    ELSE Failed("InvalidEpoch", n, ValueOf(l))

ParseErrors ==
    LET c == file.contents
        ls == FileLines(c)
        n == FirstBad(ls)
    IN  IF n = 0 THEN cfg_out.kind # "Err"
        ELSE /\ cfg_out = ErrorOf(ls[n], n)
             /\ from_file(FileOf(SubSeq(RawLines(c), 1, n), TRUE)) = cfg_out

(* C9: from_file fails at the first line that has no '=' or whose port,     *)
(* node or epoch value does not parse, with MissingEquals, InvalidPort,     *)
(* InvalidNode or InvalidEpoch, the 1-based number of that line and, for    *)
(* the last three, the value's text; it returns no seed, and the lines      *)
(* after that one do not matter.  It fails for no other file.               *)
C9_ParseErrors == (cfg_out.kind # "None" /\ file.readable) => ParseErrors

\* C9 for the files that hold ASCII characters only.
C9_AsciiFiles ==
    (cfg_out.kind # "None" /\ file.readable /\ Ascii(file.contents)) => ParseErrors

(* C10: a call of sync makes one request and ends in one of four outcomes:  *)
(* success, with epoch replaced by the parsed value and the other fields    *)
(* unchanged; NetworkError with the seed's host and port;                   *)
(* DeserialisationError; InvalidSyncEpochRecived.  After each of the three  *)
(* errors every field of the seed is as it was.                             *)
C10_SyncOutcome ==
    sync_out.calls > 0 =>
        LET out == sync_out.result
            r == sync_out.answer
        IN  /\ out.requests = 1
            /\ out.kind \in {"Ok", "NetworkError", "DeserialisationError",
                              "InvalidSyncEpochRecived"}
            /\ out.kind = "Ok" =>
                   /\ r.reached /\ r.json = "epoch_string"
                   /\ seed = [seed_was EXCEPT !.epoch = parse(r.epoch, U128Max).value]
            /\ out.kind # "Ok" => seed = seed_was
            /\ out.kind = "NetworkError" <=> ~r.reached
            /\ out.kind = "NetworkError" =>
                   out.host = seed_was.sync_host /\ out.port = seed_was.sync_port
            /\ out.kind = "DeserialisationError" <=>
                   (r.reached /\ r.json # "epoch_string")

\* A second call failed on an epoch that does not parse, after a first
\* call had replaced the epoch.
C10_Witness ==
    /\ sync_out.calls = 2
    /\ sync_out.result.kind = "InvalidSyncEpochRecived"
    /\ seed.epoch > 5
    /\ seed.sync_host # <<>>

-----------------------------------------------------------------------------
(* C11: under non-decreasing readings, when the later of two successive     *)
(* identifiers of an instance has a strictly greater timestamp field than   *)
(* the earlier, its sequence field is 0; wherever the clock ticked between  *)
(* the reading of check_sequence and the reading of generate.               *)
C11_FreshCount ==
    \A g \in active :
        (/\ mono[g] /\ small[g] /\ Len(recent[g]) = 2
         /\ WordLt(TimestampField(recent[g][1]), TimestampField(recent[g][2]))) =>
            SequenceField(recent[g][2]) = {}

\* The sequence field of the later of two successive identifiers is that of
\* the earlier plus 1 when their timestamp fields are equal.
NextInMillisecond(g) ==
    TimestampField(recent[g][1]) = TimestampField(recent[g][2]) =>
        SequenceField(recent[g][2]) = WordAdd(SequenceField(recent[g][1]), Word(1))

(* C12 as stated: under non-decreasing readings, two successive identifiers *)
(* of an instance with equal timestamp fields have sequence fields s and    *)
(* s + 1.                                                                   *)
C12_Consecutive ==
    \A g \in active :
        (mono[g] /\ Len(recent[g]) = 2) => NextInMillisecond(g)

(* C12, amended: the same under non-decreasing readings below 2^42, so that *)
(* equal timestamp fields mean equal readings.                              *)
C12_ConsecutiveBelowWrap ==
    \A g \in active :
        (mono[g] /\ small[g] /\ Len(recent[g]) = 2) => NextInMillisecond(g)

\* The call after 4095 calls of one millisecond returned in that
\* millisecond, with sequence field 4095.
C12_Witness ==
    \E g \in active :
        /\ mono[g] /\ small[g] /\ bursted[g] /\ returned[g] = 4
        /\ TimestampField(recent[g][1]) = TimestampField(recent[g][2])
        /\ SequenceField(recent[g][2]) = Word(SequenceMax)

-----------------------------------------------------------------------------
(* C13: no step of a generate() call changes epoch, node_id or thread_id of *)
(* the instance, and when a call has returned last_time is the reading of   *)
(* line 226, the one whose low 42 bits are the timestamp field of the       *)
(* identifier returned.                                                     *)
C13_Frame ==
    /\ [][\A g \in active :
             /\ gen'[g].epoch = gen[g].epoch
             /\ gen'[g].node_id = gen[g].node_id
             /\ gen'[g].thread_id = gen[g].thread_id]_vars
    /\ [](\A g \in active :
             (pc[g] = "idle" /\ Len(recent[g]) > 0) =>
                 /\ gen[g].last_time = lastRead[g]
                 /\ gen[g].last_time = asm[g].t
                 /\ TimestampField(Latest(g)) = ModPow2(gen[g].last_time, TimeBits))

\* Two calls made one step at a time have returned, the second at a later
\* reading than the first.
C13_Witness ==
    \E g \in active :
        /\ pc[g] = "idle" /\ ~bursted[g] /\ returned[g] = 2
        /\ gen[g].sequence = 1
        /\ gen[g].last_time = Word(2)
        /\ gen[g].thread_id > IdMask

-----------------------------------------------------------------------------
(* C14: under a clock that keeps advancing every generate() call returns:   *)
(* a call that has read the clock at line 226 returns, and a call in the    *)
(* busy wait leaves it (unless last_time is the last time of the model,     *)
(* which no reading exceeds).  A call entered with sequence at most 4095    *)
(* goes to line 226 without waiting; only a call entered with sequence 4096 *)
(* is in the busy wait, and an evaluation of its condition keeps the call   *)
(* there exactly when the reading is at or before last_time.                *)
C14_Terminates ==
    /\ [](\A g \in active : pc[g] = "spin" => gen[g].sequence = SequenceMax + 1)
    /\ [][\A g \in active :
             /\ (pc[g] = "idle" /\ pc'[g] # "idle") =>
                    IF gen[g].sequence <= SequenceMax
                    THEN pc'[g] = "read" ELSE pc'[g] = "spin"
             /\ (pc[g] = "spin" /\ pc'[g] # "spin") =>
                    pc'[g] = "read" /\ WordLt(gen[g].last_time, clock.ms)
             /\ (pc[g] = "spin" /\ pc'[g] = "spin" /\ lastRead'[g] # lastRead[g]) =>
                    WordLe(clock.ms, gen[g].last_time)]_vars
    /\ \A g \in Gens :
           /\ (pc[g] = "read") ~> (pc[g] = "idle")
           /\ (pc[g] = "spin") ~> (pc[g] = "read" \/ gen[g].last_time = TopTime)

\* A call that went through the busy wait has returned.
C14_Witness ==
    \E g \in active :
        /\ rolled[g] /\ pc[g] = "idle" /\ returned[g] = 5
        /\ gen[g].sequence = 1
        /\ WordLt(asm[g].t, TopTime)

-----------------------------------------------------------------------------
\* The line with the whitespace around it and around its value removed.
TrimValue(l) ==
    IF HasEq(trim(l)) THEN Text(KeyOf(trim(l)), trim(ValueOf(trim(l)))) ELSE l

(* C15: from_file gives for a file what it gives for the same file with the *)
(* whitespace around every value removed: a port, node or epoch line with   *)
(* whitespace around the value parses to the same number, a host line       *)
(* stores the host without it.                                              *)
C15_ValuesTrimmed ==
    (cfg_out.kind # "None" /\ file.readable) =>
        LET c == file.contents
            ls == RawLines(c)
        IN  cfg_out = from_file(FileOf([i \in 1..Len(ls) |-> TrimValue(ls[i])],
                                       EndsInNewline(c)))

\* C15 for the files in which no whitespace stands between '=' and a value.
C15_LineTrimmed ==
    (/\ cfg_out.kind # "None" /\ file.readable
     /\ \A i \in 1..Len(FileLines(file.contents)) :
            LET l == FileLines(file.contents)[i]
            IN  HasEq(l) => trim_start(ValueOf(l)) = ValueOf(l)) =>
        LET c == file.contents
            ls == RawLines(c)
        IN  cfg_out = from_file(FileOf([i \in 1..Len(ls) |-> TrimValue(ls[i])],
                                       EndsInNewline(c)))

-----------------------------------------------------------------------------
(* C16: fracture(thread_id) makes a generator with the seed's epoch and     *)
(* node_id as they are at the call, the thread_id given, sequence 0 and     *)
(* last_time 0, and leaves the seed and the other generators as they were;  *)
(* a step that changes one generator changes neither the seed nor another   *)
(* generator; the first identifier a generator returns has sequence         *)
(* field 0.                                                                 *)
C16_Sealing ==
    /\ [][\A g \in Gens, thread_id \in ThreadIds :
             Fracture(g, thread_id) =>
                 /\ gen'[g] = [epoch |-> seed.epoch, node_id |-> seed.node_id,
                               thread_id |-> thread_id, sequence |-> 0,
                               last_time |-> {}]
                 /\ seed' = seed
                 /\ \A h \in Gens \ {g} : gen'[h] = gen[h]]_vars
    /\ [][\A g \in Gens :
             gen'[g] # gen[g] =>
                 /\ seed' = seed
                 /\ \A h \in Gens \ {g} : gen'[h] = gen[h]]_vars
    /\ [](\A g \in active : returned[g] = 1 => SequenceField(Latest(g)) = {})

\* Two generators were made from one seed, before and after a sync() that
\* replaced its epoch, and the first has returned an identifier at a
\* reading above 0.
C16_Witness ==
    /\ active = {1, 2}
    /\ gen[1].epoch # gen[2].epoch
    /\ gen[1].node_id = gen[2].node_id
    /\ gen[1].thread_id # gen[2].thread_id
    /\ returned[1] = 1
    /\ gen[1].last_time # {}
    /\ gen[2].sequence = 0 /\ gen[2].last_time = {}

-----------------------------------------------------------------------------
(* C17: the stored sequence of a generator driven by generate() is always   *)
(* between 0 and 4096, at every bit assembly it is at most 4095, and the    *)
(* sequence field of the identifier returned is the stored sequence of its  *)
(* assembly: the mask of line 245 removes nothing, and 4096 is never        *)
(* emitted as 0.  Whatever the clock does.                                  *)
C17_SequenceBound ==
    \A g \in active :
        /\ gen[g].sequence \in 0..(SequenceMax + 1)
        /\ asm[g].s \in 0..SequenceMax
        /\ Len(recent[g]) > 0 => SequenceField(Latest(g)) = Word(asm[g].s)
        /\ pc[g] = "read" => gen[g].sequence <= SequenceMax

\* The stored sequence stands at 4096 between two calls, after the
\* identifier with sequence field 4095.
C17_Witness ==
    \E g \in active :
        /\ pc[g] = "idle"
        /\ gen[g].sequence = SequenceMax + 1
        /\ asm[g].s = SequenceMax
        /\ SequenceField(Latest(g)) = Word(SequenceMax)

====
